---- MODULE Spec2Model ----
(***************************************************************************)
(* Model of the async-locking crate: advisory whole-file locks (flock on   *)
(* unix, LockFileEx on windows) behind owning (Lock) and borrowing         *)
(* (LockRef) guards, with the blocking calls dispatched to a worker.       *)
(*                                                                         *)
(* The state machine Spec models the unix backend (cfg(not(windows)), the  *)
(* backend lib.rs selects everywhere but on windows).  Every handle is an  *)
(* independently opened descriptor of the same file.                       *)
(***************************************************************************)
EXTENDS Integers, Sequences, FiniteSets, TLC

\* ---------------------------------------------------------------- bounds
NHandles == 2
MaxGuards == 2
MaxErrno == 40
MaxClones == 1
\* the calls handed to spawn_blocking and not ended, of all handles together
MaxCalls == 2
\* the same for a program that awaits its calls one after the other (FairSpec)
MaxSerial == 1

Handles == 1..NHandles
\* the slots of the calls of a handle that are dispatched and not ended
JobSlots == 1..MaxCalls

\* The type T of a handle: the odd handles are files that own their descriptor
\* (std::fs::File: dropping T closes it), the even ones are borrowed descriptors
\* (RawFd, which is AsRawFd + Send + 'static too): dropping T does nothing, and
\* the descriptor is closed by its owner elsewhere.
Owning(h) == h % 2 = 1

\* T: Clone, which derive(Clone) on Lock<T> asks for: RawFd is, File is not
Cloneable(h) == ~Owning(h)

\* ------------------------------------------------------ program constants
LOCK_SH == 1
LOCK_EX == 2
LOCK_NB == 4
LOCK_UN == 8
EBADF == 9
EWOULDBLOCK == 11
LOCKFILE_FAIL_IMMEDIATELY == 1
LOCKFILE_EXCLUSIVE_LOCK == 2
ERROR_LOCK_VIOLATION == 33

\* the flag words the unix primitives pass to flock (disjoint bits: | is +)
FlockOps == {LOCK_SH, LOCK_EX, LOCK_SH + LOCK_NB, LOCK_EX + LOCK_NB, LOCK_UN}
\* the flag words the windows primitives pass to LockFileEx
LockFileExFlags == {0, LOCKFILE_EXCLUSIVE_LOCK, LOCKFILE_FAIL_IMMEDIATELY,
                    LOCKFILE_FAIL_IMMEDIATELY + LOCKFILE_EXCLUSIVE_LOCK}

VARIABLES
    fdOpen,   \* OS: fdOpen[h], the descriptor of handle h is open
    osLock,   \* OS: the flock lock the open file description of h holds: 0, LOCK_SH, LOCK_EX
    hstate,   \* where the value T of handle h is: "caller", "job", "lock", "gone";
              \* a Copy handle stays "caller" until its process is dead ("gone")
    guards,   \* guards[h]: the live guards on h, in the order they were made
    job,      \* job[h][k]: a blocking call of h dispatched to the worker, and its future
    closes,   \* closes[h]: how many times a value T of an owning handle h was dropped
    ev,       \* what the step into this state returned to its caller (Quiet: nothing),
              \* and how many unlock calls were issued so far for the guard it ended
    probe,    \* input and output of one non-blocking primitive call (SpecTry)
    clones    \* clones[h]: the live clones of the owning guard of h (Lock: Clone)

vars == <<fdOpen, osLock, hstate, guards, job, closes, ev, probe, clones>>

\* ------------------------------------------------------------ the OS side
\* flock(2) as Linux implements it: another open file description holding a
\* conflicting lock makes LOCK_NB fail with EWOULDBLOCK and a blocking call wait;
\* a conversion first removes the caller's own lock, which a failing or waiting
\* conversion has then lost.
Conflicts(lock, h, mode) ==
    \E g \in Handles \ {h} : lock[g] # 0 /\ (mode = LOCK_EX \/ lock[g] = LOCK_EX)

flock(open, lock, h, op) ==
    LET mode == op % LOCK_NB
        nb == (op \div LOCK_NB) % 2 = 1
        removed == [lock EXCEPT ![h] = 0]
    IN  IF ~open[h]
        THEN [ret |-> -1, errno |-> EBADF, post |-> lock, blocked |-> FALSE]
        ELSE IF op = LOCK_UN
        THEN [ret |-> 0, errno |-> 0, post |-> removed, blocked |-> FALSE]
        ELSE IF lock[h] = mode
        THEN [ret |-> 0, errno |-> 0, post |-> lock, blocked |-> FALSE]
        ELSE IF Conflicts(removed, h, mode)
        THEN IF nb
             THEN [ret |-> -1, errno |-> EWOULDBLOCK, post |-> removed, blocked |-> FALSE]
             ELSE [ret |-> 0, errno |-> 0, post |-> removed, blocked |-> TRUE]
        ELSE [ret |-> 0, errno |-> 0, post |-> [lock EXCEPT ![h] = mode], blocked |-> FALSE]

\* what each flock call would return in the OS state (open, lock)
Sys(open, lock) == [h \in Handles, op \in FlockOps |-> flock(open, lock, h, op)]

\* std::io::Error::kind() of an errno (EAGAIN = EWOULDBLOCK on the targets)
kind(errno) == IF errno = EWOULDBLOCK THEN "WouldBlock" ELSE "Other"

\* ------------------------------------------------ unix.rs: the primitives
\* Each takes the table sys of what flock answers, and returns the io::Result
\* together with the OS lock table the call leaves (post).
lock_file(sys, h, op) ==
    LET res == sys[h, op]
    IN  IF res.blocked THEN [tag |-> "Pending", err |-> 0, post |-> res.post]
        ELSE IF res.ret = 0 THEN [tag |-> "Ok", err |-> 0, post |-> res.post]
        ELSE [tag |-> "Err", err |-> res.errno, post |-> res.post]

lock_shared(sys, h) == lock_file(sys, h, LOCK_SH)

lock_exclusive(sys, h) == lock_file(sys, h, LOCK_EX)

\* mutant: would-block is handed on as the error it arrived as
try_lock_shared_NoWouldBlock(sys, h) ==
    LET res == lock_file(sys, h, LOCK_SH + LOCK_NB)
    IN  IF res.tag = "Ok" THEN [res EXCEPT !.tag = "Some"] ELSE res

try_lock_shared(sys, h) ==
    LET res == lock_file(sys, h, LOCK_SH + LOCK_NB)
    IN  IF res.tag = "Err" /\ kind(res.err) = "WouldBlock"
        THEN [tag |-> "None", err |-> 0, post |-> res.post]
        ELSE IF res.tag = "Ok" THEN [res EXCEPT !.tag = "Some"] ELSE res

\* mutant: the exclusive attempt asks for the shared class
try_lock_exclusive_SharedFlag(sys, h) ==
    LET res == lock_file(sys, h, LOCK_SH + LOCK_NB)
    IN  IF res.tag = "Err" /\ kind(res.err) = "WouldBlock"
        THEN [tag |-> "None", err |-> 0, post |-> res.post]
        ELSE IF res.tag = "Ok" THEN [res EXCEPT !.tag = "Some"] ELSE res

try_lock_exclusive(sys, h) ==
    LET res == lock_file(sys, h, LOCK_EX + LOCK_NB)
    IN  IF res.tag = "Err" /\ kind(res.err) = "WouldBlock"
        THEN [tag |-> "None", err |-> 0, post |-> res.post]
        ELSE IF res.tag = "Ok" THEN [res EXCEPT !.tag = "Some"] ELSE res

\* mutant: the unlock passes a lock operation instead of LOCK_UN
unlock_ref_WrongOp(sys, h) == lock_file(sys, h, LOCK_SH + LOCK_NB)

unlock_ref(sys, h) == lock_file(sys, h, LOCK_UN)

unlock(sys, h) == unlock_ref(sys, h)

\* --------------------------------------------- windows.rs: the primitives
\* sys[h, flags] is what LockFileEx returned (ret: BOOL, 0 on failure) and
\* what GetLastError answers after it
windows_lock_file(sys, h, flags) ==
    LET ret == sys[h, flags]
    IN  IF ret.ret = 0 THEN [tag |-> "Err", err |-> ret.errno, post |-> ret.post]
        ELSE [tag |-> "Ok", err |-> 0, post |-> ret.post]

windows_try_lock_shared(sys, h) ==
    LET res == windows_lock_file(sys, h, LOCKFILE_FAIL_IMMEDIATELY)
    IN  IF res.tag = "Err" /\ res.err = ERROR_LOCK_VIOLATION
        THEN [tag |-> "None", err |-> 0, post |-> res.post]
        ELSE IF res.tag = "Ok" THEN [res EXCEPT !.tag = "Some"] ELSE res

\* mutant: every failure of the call is taken for a lock violation
windows_try_lock_exclusive_AnyError(sys, h) ==
    LET res == windows_lock_file(sys, h,
                   LOCKFILE_FAIL_IMMEDIATELY + LOCKFILE_EXCLUSIVE_LOCK)
    IN  IF res.tag = "Err"
        THEN [tag |-> "None", err |-> 0, post |-> res.post]
        ELSE [res EXCEPT !.tag = "Some"]

windows_try_lock_exclusive(sys, h) ==
    LET res == windows_lock_file(sys, h,
                   LOCKFILE_FAIL_IMMEDIATELY + LOCKFILE_EXCLUSIVE_LOCK)
    IN  IF res.tag = "Err" /\ res.err = ERROR_LOCK_VIOLATION
        THEN [tag |-> "None", err |-> 0, post |-> res.post]
        ELSE IF res.tag = "Ok" THEN [res EXCEPT !.tag = "Some"] ELSE res

\* --------------------------------------------------------------- helpers
\* a slot without a call; self: what Lock::unlock was called on ("guard", "clone")
NoJob == [op |-> "none", flag |-> 0, st |-> "none", tag |-> "", err |-> 0,
          fut |-> "none", calls |-> 0, waited |-> FALSE, self |-> "none"]
NoJobs == [k \in JobSlots |-> NoJob]
\* The tasks handed to spawn_blocking are not ordered: the calls of a handle
\* are kept in one arrangement, the free slots last
Canon(f) ==
    CHOOSE g \in {[k \in JobSlots |-> f[p[k]]] : p \in Permutations(JobSlots)} :
        \A k \in JobSlots \ {1} : g[k].op # "none" => g[k - 1].op # "none"
\* job with the call in slot k of h replaced by y
Put(h, k, y) == [job EXCEPT ![h] = Canon([@ EXCEPT ![k] = y])]
\* no call of h is dispatched
Idle(h) == job[h] = NoJobs
\* the slot the next dispatched call of h takes
\* the calls dispatched and not ended, and whether one more can be dispatched
InFlight == Cardinality({p \in Handles \X JobSlots : job[p[1]][p[2]].op # "none"})
HasFree(h) == InFlight < MaxCalls
FreeSlot(h) == CHOOSE k \in JobSlots :
                  job[h][k].op = "none" /\ \A j \in 1..(k - 1) : job[h][j].op # "none"
Guard(k, m) == [kind |-> k, mode |-> m]
Remove(s, i) == SubSeq(s, 1, i - 1) \o SubSeq(s, i + 1, Len(s))
Event(o, h, r) == [op |-> o, h |-> h, tag |-> r.tag, err |-> r.err, calls |-> r.calls,
                   waited |-> r.waited]
\* ev in the state after a step that returns nothing to a caller
Quiet == [op |-> "none", h |-> 0, tag |-> "", err |-> 0, calls |-> 0, waited |-> FALSE]
NoCalls(r) == [tag |-> r.tag, err |-> r.err, calls |-> 0, waited |-> FALSE]
Ended(o, h, n) == [Quiet EXCEPT !.op = o, !.h = h, !.calls = n]

\* where the value T moved into the library is; a Copy handle (RawFd) stays
\* with the caller whatever copy of it was moved
Moved(h, s) == IF Owning(h) THEN [hstate EXCEPT ![h] = s] ELSE hstate

\* the handle h can be reached by the caller: it owns it, or holds the guard
\* that owns it and is not consumed by a pending unlock; a Copy handle can be
\* reached as long as its process lives
Accessible(h) ==
    IF Owning(h) THEN hstate[h] \in {"caller", "lock"} /\ Idle(h)
    ELSE hstate[h] = "caller"

\* the guards of h and the lock calls of h in flight
Slots(h) == Len(guards[h]) + Cardinality({k \in JobSlots : job[h][k].op = "lock"})

\* the owning guards of mode m, and how many of them (of the clones) are moved
\* into the future of a pending Lock::unlock
OwnAt(h, m) == {i \in 1..Len(guards[h]) : guards[h][i] = Guard("own", m)}
Consumed(h, m) ==
    Cardinality({k \in JobSlots : /\ job[h][k].op = "unlock" /\ job[h][k].fut = "pending"
                                  /\ job[h][k].self = "guard" /\ job[h][k].flag = m})
ConsumedClones(h) ==
    Cardinality({k \in JobSlots : /\ job[h][k].op = "unlock" /\ job[h][k].fut = "pending"
                                  /\ job[h][k].self = "clone"})
\* the guard at i is the caller's to use: not moved into a pending Lock::unlock
Usable(h, i) ==
    /\ i \in 1..Len(guards[h])
    /\ guards[h][i].kind = "own"
          => Cardinality(OwnAt(h, guards[h][i].mode)) > Consumed(h, guards[h][i].mode)
\* the guard at i can be ended now: a guard of a File borrows or owns the one
\* value, so that only the innermost can; the guards of a Copy handle are
\* independent values
CanEnd(h, i) ==
    /\ Usable(h, i)
    /\ Owning(h) => i = Len(guards[h])
\* guards[h] without the owning guard of mode m that Lock::unlock consumed
RemoveOwn(h, m) ==
    IF OwnAt(h, m) = {} THEN guards[h]
    ELSE Remove(guards[h], CHOOSE i \in OwnAt(h, m) : \A j \in OwnAt(h, m) : i <= j)
\* the guards and the clones of h once the self of the unlock call j is gone
EndGuards(h, j) == IF j.self = "guard" THEN RemoveOwn(h, j.flag) ELSE guards[h]
EndClones(h, j) == IF j.self = "clone" THEN clones[h] - 1 ELSE clones[h]

\* ------------------------------------------------------------------ Init
Init ==
    /\ fdOpen = [h \in Handles |-> TRUE]
    /\ osLock = [h \in Handles |-> 0]
    /\ hstate = [h \in Handles |-> "caller"]
    /\ guards = [h \in Handles |-> <<>>]
    /\ job = [h \in Handles |-> NoJobs]
    /\ closes = [h \in Handles |-> 0]
    /\ ev = Quiet
    /\ probe = [phase |-> "off"]
    /\ clones = [h \in Handles |-> 0]

\* ---------------------------------------------- lib.rs: AsyncLockFileExt
\* try_lock_shared(&mut self): the primitive, then LockRef::new on Some
TryLockShared(h) ==
    /\ Accessible(h)
    /\ Slots(h) < MaxGuards
    /\ LET r == try_lock_shared(Sys(fdOpen, osLock), h)
       IN  /\ osLock' = r.post
           /\ guards' = [guards EXCEPT ![h] =
                           IF r.tag = "Some" THEN Append(@, Guard("ref", LOCK_SH)) ELSE @]
           /\ ev' = Event("try_lock_shared", h, NoCalls(r))
    /\ UNCHANGED <<fdOpen, hstate, job, closes, probe, clones>>

TryLockExclusive(h) ==
    /\ Accessible(h)
    /\ Slots(h) < MaxGuards
    /\ LET r == try_lock_exclusive(Sys(fdOpen, osLock), h)
       IN  /\ osLock' = r.post
           /\ guards' = [guards EXCEPT ![h] =
                           IF r.tag = "Some" THEN Append(@, Guard("ref", LOCK_EX)) ELSE @]
           /\ ev' = Event("try_lock_exclusive", h, NoCalls(r))
    /\ UNCHANGED <<fdOpen, hstate, job, closes, probe, clones>>

\* ------------------------------------------------------ lib.rs: the guards
\* dropping a value T of handle h: an owning T closes its descriptor, which
\* releases the lock of its open file description; closes counts the drops
DropFile(open, lock, cl, h) ==
    IF Owning(h)
    THEN [open |-> [open EXCEPT ![h] = FALSE], lock |-> [lock EXCEPT ![h] = 0],
          closes |-> [cl EXCEPT ![h] = @ + 1]]
    ELSE [open |-> open, lock |-> lock, closes |-> cl]

\* the drop of a second File value of a descriptor already closed: an I/O
\* safety violation, which a build with debug assertions answers by aborting
\* the process and a build without them lets pass (DropFile)
DoubleDrop(open, h) == Owning(h) /\ ~open[h]

\* the process is aborted in a drop of a value of h, cl counting the drops up
\* to and with that one: nothing of it runs on, and the OS closes its descriptors
Aborted(h, cl) ==
    /\ fdOpen' = [g \in Handles |-> FALSE]
    /\ osLock' = [g \in Handles |-> 0]
    /\ hstate' = [g \in Handles |-> "gone"]
    /\ guards' = [g \in Handles |-> <<>>]
    /\ job' = [g \in Handles |-> NoJobs]
    /\ clones' = [g \in Handles |-> 0]
    /\ closes' = cl
    /\ ev' = Ended("abort", h, 0)
    /\ UNCHANGED probe

\* mutant: the destructor releases nothing
LockRef_drop_Forget(open, lock, h) == [post |-> lock, calls |-> 0]

\* impl Drop for LockRef: let _ = self.unlock_ref()
LockRef_drop(open, lock, h) ==
    LET r == unlock_ref(Sys(open, lock), h)
    IN  [post |-> r.post, calls |-> 1]

\* impl Drop for Lock: let _ = self.unlock_ref() (the field file is dropped after)
Lock_drop(open, lock, h) ==
    LET r == unlock_ref(Sys(open, lock), h)
    IN  [post |-> r.post, calls |-> 1]

\* LockRef::unlock(self): unlock_ref(self.file)?; forget(self); Ok(()).
\* The ? returns with self still owned, so self is dropped on the error path.
LockRef_unlock(open, lock, h) ==
    LET r == unlock_ref(Sys(open, lock), h)
    IN  IF r.tag = "Err"
        THEN LET d == LockRef_drop(open, r.post, h)
             IN  [tag |-> "Err", err |-> r.err, post |-> d.post, calls |-> 1 + d.calls]
        ELSE [tag |-> "Ok", err |-> 0, post |-> r.post, calls |-> 1]

UnlockLockRef(h) ==
    /\ Accessible(h)
    /\ \E i \in 1..Len(guards[h]) :
          /\ CanEnd(h, i)
          /\ guards[h][i].kind = "ref"
          /\ guards' = [guards EXCEPT ![h] = Remove(@, i)]
    /\ LET r == LockRef_unlock(fdOpen, osLock, h)
       IN  /\ osLock' = r.post
           /\ ev' = Event("LockRef.unlock", h, [NoCalls(r) EXCEPT !.calls = r.calls])
    /\ UNCHANGED <<fdOpen, hstate, job, closes, probe, clones>>

\* drop(guard) of a guard on which unlock() was not called
DropGuard(h) ==
    /\ Accessible(h)
    /\ \E i \in 1..Len(guards[h]) :
          /\ CanEnd(h, i)
          /\ guards' = [guards EXCEPT ![h] = Remove(@, i)]
          /\ IF guards[h][i].kind = "ref"
             THEN LET d == LockRef_drop(fdOpen, osLock, h)
                  IN  /\ osLock' = d.post
                      /\ ev' = Ended("LockRef.drop", h, d.calls)
                      /\ UNCHANGED <<fdOpen, closes, hstate>>
             ELSE LET d == Lock_drop(fdOpen, osLock, h)
                      f == DropFile(fdOpen, d.post, closes, h)
                  IN  /\ osLock' = f.lock
                      /\ fdOpen' = f.open
                      /\ closes' = f.closes
                      /\ hstate' = Moved(h, "gone")
                      /\ ev' = Ended("Lock.drop", h, d.calls)
    /\ UNCHANGED <<job, probe, clones>>

\* pub unsafe fn unlock_ref(&self) of Lock and of LockRef, called on a live
\* guard: the unlock primitive on the wrapped handle; the guard lives on
UnlockRef(h) ==
    /\ Accessible(h)
    /\ clones[h] > ConsumedClones(h) \/ \E i \in 1..Len(guards[h]) : CanEnd(h, i)
    /\ LET r == unlock_ref(Sys(fdOpen, osLock), h)
       IN  /\ osLock' = r.post
           /\ ev' = Event("unlock_ref", h, [NoCalls(r) EXCEPT !.calls = 1])
    /\ UNCHANGED <<fdOpen, hstate, guards, job, closes, probe, clones>>

\* derive(Clone) for Lock<T>: guard.clone() is Lock { file: self.file.clone() },
\* a second owning guard of the same handle, made without any OS call
CloneLock(h) ==
    /\ Cloneable(h)
    /\ Accessible(h)
    /\ clones[h] > ConsumedClones(h)
          \/ \E i \in 1..Len(guards[h]) : Usable(h, i) /\ guards[h][i].kind = "own"
    /\ clones[h] < MaxClones
    /\ clones' = [clones EXCEPT ![h] = @ + 1]
    /\ ev' = Ended("Lock.clone", h, 0)
    /\ UNCHANGED <<fdOpen, osLock, hstate, guards, job, closes, probe>>

\* drop(clone): Drop for Lock on the clone, then its copy of the handle is dropped
DropClone(h) ==
    /\ clones[h] > ConsumedClones(h)
    /\ LET d == Lock_drop(fdOpen, osLock, h)
           f == DropFile(fdOpen, d.post, closes, h)
       IN  /\ osLock' = f.lock
           /\ fdOpen' = f.open
           /\ closes' = f.closes
           /\ ev' = Ended("Lock.drop", h, d.calls)
    /\ clones' = [clones EXCEPT ![h] = @ - 1]
    /\ UNCHANGED <<hstate, guards, job, probe>>

\* ------------------------------------ lib.rs: lock_shared / lock_exclusive
\* lock_shared(self) / lock_exclusive(self): the handle moves into the closure
\* handed to spawn_blocking; the future is pending until the worker is done.
\* A File is the caller's to move only when no guard and no call has it; a
\* RawFd is copied, whatever else is done with it.
Dispatch(h, flag) ==
    /\ hstate[h] = "caller"
    /\ Owning(h) => (guards[h] = <<>> /\ Idle(h))
    /\ HasFree(h)
    /\ Slots(h) < MaxGuards
    /\ hstate' = Moved(h, "job")
    /\ job' = Put(h, FreeSlot(h),
                 [NoJob EXCEPT !.op = "lock", !.flag = flag, !.st = "queued",
                               !.fut = "pending"])
    /\ ev' = Quiet
    /\ UNCHANGED <<fdOpen, osLock, guards, closes, probe, clones>>

LockShared(h) == Dispatch(h, LOCK_SH)

LockExclusive(h) == Dispatch(h, LOCK_EX)

\* the descriptors as the lock call in slot k of h finds them: a call waiting
\* in the kernel resolved its descriptor when it entered
Entered(h, k) == IF job[h][k].st = "blocked" THEN [fdOpen EXCEPT ![h] = TRUE] ELSE fdOpen

\* mutant: a call that waits in the kernel never returns
WorkerLock_NoWake(h, k) ==
    /\ job[h][k].op = "lock"
    /\ job[h][k].st = "queued"
    /\ LET r == IF job[h][k].flag = LOCK_SH THEN lock_shared(Sys(Entered(h, k), osLock), h)
                ELSE lock_exclusive(Sys(Entered(h, k), osLock), h)
           post == IF fdOpen[h] \/ r.tag = "Err" THEN r.post ELSE [r.post EXCEPT ![h] = 0]
           f == IF r.tag = "Err" THEN DropFile(fdOpen, post, closes, h)
                ELSE [open |-> fdOpen, lock |-> post, closes |-> closes]
       IN  /\ r.tag = "Pending" => job[h][k].st = "queued"
           /\ osLock' = f.lock
           /\ fdOpen' = f.open
           /\ closes' = f.closes
           /\ job' = Put(h, k,
                 IF r.tag = "Pending"
                 THEN [job[h][k] EXCEPT !.st = "blocked", !.waited = TRUE]
                 ELSE IF r.tag = "Err" /\ job[h][k].fut = "abandoned" THEN NoJob
                 ELSE [job[h][k] EXCEPT !.st = "done", !.tag = r.tag, !.err = r.err])
    /\ ev' = Quiet
    /\ UNCHANGED <<hstate, guards, probe, clones>>

\* the worker runs the closure: the blocking primitive on the moved handle.
\* A call that has to wait stays in the kernel ("blocked"; a waiting conversion
\* has dropped the caller's lock) and returns once the lock can be granted. The
\* kernel resolved the descriptor when the call entered it: closing the
\* descriptor under a waiting call does not fail the call, and the open file
\* description, with the lock just granted, is released when the call returns.
\* On Err the primitive drops the handle. The lock of a call whose future was
\* abandoned is held until the task's output is dropped (DropOutput).
WorkerLock(h, k) ==
    /\ job[h][k].op = "lock"
    /\ job[h][k].st \in {"queued", "blocked"}
    /\ LET r == IF job[h][k].flag = LOCK_SH THEN lock_shared(Sys(Entered(h, k), osLock), h)
                ELSE lock_exclusive(Sys(Entered(h, k), osLock), h)
           post == IF fdOpen[h] \/ r.tag = "Err" THEN r.post ELSE [r.post EXCEPT ![h] = 0]
           f == IF r.tag = "Err" THEN DropFile(fdOpen, post, closes, h)
                ELSE [open |-> fdOpen, lock |-> post, closes |-> closes]
       IN  /\ r.tag = "Pending" => job[h][k].st = "queued"
           /\ osLock' = f.lock
           /\ fdOpen' = f.open
           /\ closes' = f.closes
           /\ job' = Put(h, k,
                 IF r.tag = "Pending"
                 THEN [job[h][k] EXCEPT !.st = "blocked", !.waited = TRUE]
                 ELSE IF r.tag = "Err" /\ job[h][k].fut = "abandoned" THEN NoJob
                 ELSE [job[h][k] EXCEPT !.st = "done", !.tag = r.tag, !.err = r.err])
    /\ ev' = Quiet
    /\ UNCHANGED <<hstate, guards, probe, clones>>

\* mutant: the output of a task whose future was abandoned is forgotten
DropOutput_Forget(h, k) ==
    /\ job[h][k].op = "lock"
    /\ job[h][k].st = "done"
    /\ job[h][k].fut = "abandoned"
    /\ job' = Put(h, k, NoJob)
    /\ ev' = Quiet
    /\ UNCHANGED <<fdOpen, osLock, closes, hstate, guards, probe, clones>>

\* the worker drops the output of a task whose future was abandoned: the
\* handle the call returned, for which no guard was made
DropOutput(h, k) ==
    /\ job[h][k].op = "lock"
    /\ job[h][k].st = "done"
    /\ job[h][k].fut = "abandoned"
    /\ LET f == DropFile(fdOpen, osLock, closes, h)
       IN  /\ osLock' = f.lock
           /\ fdOpen' = f.open
           /\ closes' = f.closes
    /\ job' = Put(h, k, NoJob)
    /\ ev' = Quiet
    /\ UNCHANGED <<hstate, guards, probe, clones>>

\* mutant: an error of the call is dropped and the guard made all the same
LockResolve_DropsError(h, k) ==
    /\ job[h][k].op = "lock"
    /\ job[h][k].st = "done"
    /\ job[h][k].fut = "pending"
    /\ guards' = [guards EXCEPT ![h] = Append(@, Guard("own", job[h][k].flag))]
    /\ hstate' = Moved(h, "lock")
    /\ ev' = Event(IF job[h][k].flag = LOCK_SH THEN "lock_shared" ELSE "lock_exclusive",
                   h, [job[h][k] EXCEPT !.tag = "Ok", !.err = 0])
    /\ job' = Put(h, k, NoJob)
    /\ UNCHANGED <<fdOpen, osLock, closes, probe, clones>>

\* the future is polled after the worker is done: res.map(|file| Lock::new(file))
LockResolve(h, k) ==
    /\ job[h][k].op = "lock"
    /\ job[h][k].st = "done"
    /\ job[h][k].fut = "pending"
    /\ IF job[h][k].tag = "Ok"
       THEN /\ guards' = [guards EXCEPT ![h] = Append(@, Guard("own", job[h][k].flag))]
            /\ hstate' = Moved(h, "lock")
       ELSE /\ guards' = guards
            /\ hstate' = Moved(h, "gone")
    /\ ev' = Event(IF job[h][k].flag = LOCK_SH THEN "lock_shared" ELSE "lock_exclusive",
                   h, job[h][k])
    /\ job' = Put(h, k, NoJob)
    /\ UNCHANGED <<fdOpen, osLock, closes, probe, clones>>

\* mutant: dropping the future cancels a call that has not returned, and the
\* handle it captured is dropped
LockAbandon_Cancels(h, k) ==
    /\ job[h][k].op = "lock"
    /\ job[h][k].fut = "pending"
    /\ LET f == IF job[h][k].st # "failed" /\ job[h][k].tag # "Err"
                THEN DropFile(fdOpen, osLock, closes, h)
                ELSE [open |-> fdOpen, lock |-> osLock, closes |-> closes]
       IN  /\ osLock' = f.lock
           /\ fdOpen' = f.open
           /\ closes' = f.closes
    /\ job' = Put(h, k, NoJob)
    /\ hstate' = Moved(h, "gone")
    /\ ev' = Ended("lock.abandon", h, 0)
    /\ UNCHANGED <<guards, probe, clones>>

\* the future is dropped before it resolved: the task is detached, and an
\* output already there is dropped with the join handle
LockAbandon(h, k) ==
    /\ job[h][k].op = "lock"
    /\ job[h][k].fut = "pending"
    /\ LET f == IF job[h][k].st = "done" /\ job[h][k].tag = "Ok"
                THEN DropFile(fdOpen, osLock, closes, h)
                ELSE [open |-> fdOpen, lock |-> osLock, closes |-> closes]
       IN  /\ osLock' = f.lock
           /\ fdOpen' = f.open
           /\ closes' = f.closes
    /\ job' = Put(h, k, IF job[h][k].st \in {"done", "failed"} THEN NoJob
                                     ELSE [job[h][k] EXCEPT !.fut = "abandoned"])
    /\ hstate' = Moved(h, "gone")
    /\ ev' = Ended("lock.abandon", h, 0)
    /\ UNCHANGED <<guards, probe, clones>>

\* ----------------------------------------------------- lib.rs: Lock::unlock
\* Lock::unlock(self), up to the await, on a guard or on a clone of one:
\* ptr::read copies the handle out of self into the closure handed to
\* spawn_blocking; self stays in the future (job.flag keeps the mode of the
\* guard that was consumed)
UnlockLock(h) ==
    /\ Accessible(h)
    /\ HasFree(h)
    /\ Owning(h) => Len(guards[h]) = 1
    /\ \/ \E i \in 1..Len(guards[h]) :
             /\ Usable(h, i)
             /\ guards[h][i].kind = "own"
             /\ job' = Put(h, FreeSlot(h),
                          [NoJob EXCEPT !.op = "unlock", !.st = "queued",
                                        !.fut = "pending", !.self = "guard",
                                        !.flag = guards[h][i].mode])
       \/ /\ clones[h] > ConsumedClones(h)
          /\ job' = Put(h, FreeSlot(h),
                       [NoJob EXCEPT !.op = "unlock", !.st = "queued",
                                     !.fut = "pending", !.self = "clone"])
    /\ ev' = Quiet
    /\ UNCHANGED <<fdOpen, osLock, hstate, guards, closes, probe, clones>>

\* the worker runs unlock(file) on the copy: Ok carries the copy back, Err
\* drops it; the output of a task whose future was abandoned is dropped
WorkerUnlock(h, k) ==
    /\ job[h][k].op = "unlock"
    /\ job[h][k].st = "queued"
    /\ LET r == unlock(Sys(fdOpen, osLock), h)
           dropped == r.tag = "Err" \/ job[h][k].fut = "abandoned"
           f == IF dropped THEN DropFile(fdOpen, r.post, closes, h)
                ELSE [open |-> fdOpen, lock |-> r.post, closes |-> closes]
       IN  \/ /\ dropped /\ DoubleDrop(fdOpen, h)
              /\ Aborted(h, f.closes)
           \/ /\ osLock' = f.lock
              /\ fdOpen' = f.open
              /\ closes' = f.closes
              /\ job' = Put(h, k,
                    IF job[h][k].fut = "abandoned" THEN NoJob
                    ELSE [job[h][k] EXCEPT !.st = "done", !.tag = r.tag, !.err = r.err,
                                   !.calls = @ + 1])
              /\ ev' = IF job[h][k].fut = "abandoned"
                       THEN Event("Lock.unlock.detached", h,
                                  [NoCalls(r) EXCEPT !.calls = job[h][k].calls + 1])
                       ELSE Quiet
              /\ UNCHANGED <<hstate, guards, probe, clones>>

\* mutant: forget(self) is left out, so self is dropped when unlock returns
UnlockResolve_NoForget(h, k) ==
    /\ job[h][k].op = "unlock"
    /\ job[h][k].st = "done"
    /\ job[h][k].fut = "pending"
    /\ LET d == Lock_drop(fdOpen, osLock, h)
           f == DropFile(fdOpen, d.post, closes, h)
       IN  /\ osLock' = f.lock
           /\ fdOpen' = f.open
           /\ closes' = f.closes
           /\ ev' = Event("Lock.unlock", h, [job[h][k] EXCEPT !.calls = @ + d.calls])
    /\ guards' = [guards EXCEPT ![h] = EndGuards(h, job[h][k])]
    /\ clones' = [clones EXCEPT ![h] = EndClones(h, job[h][k])]
    /\ hstate' = Moved(h, IF job[h][k].tag = "Ok" THEN "caller" ELSE "gone")
    /\ job' = Put(h, k, NoJob)
    /\ UNCHANGED probe

\* the future is polled after the worker is done: forget(self); res
UnlockResolve(h, k) ==
    /\ job[h][k].op = "unlock"
    /\ job[h][k].st = "done"
    /\ job[h][k].fut = "pending"
    /\ guards' = [guards EXCEPT ![h] = EndGuards(h, job[h][k])]
    /\ clones' = [clones EXCEPT ![h] = EndClones(h, job[h][k])]
    /\ hstate' = Moved(h, IF job[h][k].tag = "Ok" THEN "caller" ELSE "gone")
    /\ ev' = Event("Lock.unlock", h, job[h][k])
    /\ job' = Put(h, k, NoJob)
    /\ UNCHANGED <<fdOpen, osLock, closes, probe>>

\* the future of Lock::unlock is dropped at its await: the output of a
\* finished task (the copy of the handle) is dropped with the join handle,
\* then self is dropped, which runs Drop for Lock and then drops the field
\* file. The copy the task made is then, or was already, dropped as well.
UnlockAbandon(h, k) ==
    /\ job[h][k].op = "unlock"
    /\ job[h][k].fut = "pending"
    /\ LET out == job[h][k].st = "done" /\ job[h][k].tag = "Ok"
           o == IF out THEN DropFile(fdOpen, osLock, closes, h)
                ELSE [open |-> fdOpen, lock |-> osLock, closes |-> closes]
           d == Lock_drop(o.open, o.lock, h)
           f == DropFile(o.open, d.post, o.closes, h)
       IN  \/ /\ out /\ DoubleDrop(fdOpen, h)
              /\ Aborted(h, o.closes)
           \/ /\ DoubleDrop(o.open, h)
              /\ Aborted(h, f.closes)
           \/ /\ osLock' = f.lock
              /\ fdOpen' = f.open
              /\ closes' = f.closes
              /\ ev' = Ended("Lock.unlock.abandon", h, job[h][k].calls + d.calls)
              /\ guards' = [guards EXCEPT ![h] = EndGuards(h, job[h][k])]
              /\ clones' = [clones EXCEPT ![h] = EndClones(h, job[h][k])]
              /\ job' = Put(h, k,
                    IF job[h][k].st \in {"done", "failed"} THEN NoJob
                    ELSE [job[h][k] EXCEPT !.fut = "abandoned", !.calls = @ + d.calls])
              /\ hstate' = Moved(h, "gone")
              /\ UNCHANGED probe

\* ------------------------------------------- lib.rs: the dispatch failing
\* the runtime shuts down before the worker took the closure: the task is
\* cancelled, the closure is dropped with the handle it captured, and the join
\* handle has a JoinError for the future
DispatchFail(h, k) ==
    /\ job[h][k].op \in {"lock", "unlock"}
    /\ job[h][k].st = "queued"
    /\ LET f == DropFile(fdOpen, osLock, closes, h)
       IN  \/ /\ DoubleDrop(fdOpen, h)
              /\ Aborted(h, f.closes)
           \/ /\ osLock' = f.lock
              /\ fdOpen' = f.open
              /\ closes' = f.closes
              /\ job' = Put(h, k, IF job[h][k].fut = "abandoned" THEN NoJob
                                               ELSE [job[h][k] EXCEPT !.st = "failed"])
              /\ ev' = Quiet
              /\ UNCHANGED <<hstate, guards, probe, clones>>

\* mutant: the join error is handed to the caller as an io::Error
LockPanic_AsErr(h, k) ==
    /\ job[h][k].op = "lock"
    /\ job[h][k].st = "failed"
    /\ job[h][k].fut = "pending"
    /\ hstate' = Moved(h, "gone")
    /\ ev' = Event(IF job[h][k].flag = LOCK_SH THEN "lock_shared" ELSE "lock_exclusive",
                   h, [job[h][k] EXCEPT !.tag = "Err", !.err = EBADF])
    /\ job' = Put(h, k, NoJob)
    /\ UNCHANGED <<fdOpen, osLock, guards, closes, probe, clones>>

\* lock_shared / lock_exclusive polled after the task was cancelled:
\* res.unwrap() panics on the JoinError
LockPanic(h, k) ==
    /\ job[h][k].op = "lock"
    /\ job[h][k].st = "failed"
    /\ job[h][k].fut = "pending"
    /\ hstate' = Moved(h, "gone")
    /\ ev' = Event(IF job[h][k].flag = LOCK_SH THEN "lock_shared" ELSE "lock_exclusive",
                   h, [job[h][k] EXCEPT !.tag = "Panic"])
    /\ job' = Put(h, k, NoJob)
    /\ UNCHANGED <<fdOpen, osLock, guards, closes, probe, clones>>

\* Lock::unlock polled after the task was cancelled: res.unwrap() panics before
\* forget(self), so the unwinding drops self: Drop for Lock, then the field
\* file, of which the cancelled closure has dropped the copy
UnlockPanic(h, k) ==
    /\ job[h][k].op = "unlock"
    /\ job[h][k].st = "failed"
    /\ job[h][k].fut = "pending"
    /\ LET d == Lock_drop(fdOpen, osLock, h)
           f == DropFile(fdOpen, d.post, closes, h)
       IN  \/ /\ DoubleDrop(fdOpen, h)
              /\ Aborted(h, f.closes)
           \/ /\ osLock' = f.lock
              /\ fdOpen' = f.open
              /\ closes' = f.closes
              /\ ev' = Event("Lock.unlock", h,
                             [job[h][k] EXCEPT !.tag = "Panic", !.calls = @ + d.calls])
              /\ guards' = [guards EXCEPT ![h] = EndGuards(h, job[h][k])]
              /\ clones' = [clones EXCEPT ![h] = EndClones(h, job[h][k])]
              /\ hstate' = Moved(h, "gone")
              /\ job' = Put(h, k, NoJob)
              /\ UNCHANGED probe

\* ------------------------------------------------------------ the callers
\* the caller drops a File it owns and has not lent to a guard
DropHandle(h) ==
    /\ Owning(h)
    /\ hstate[h] = "caller"
    /\ guards[h] = <<>>
    /\ Idle(h)
    /\ LET f == DropFile(fdOpen, osLock, closes, h)
       IN  /\ osLock' = f.lock
           /\ fdOpen' = f.open
           /\ closes' = f.closes
    /\ hstate' = [hstate EXCEPT ![h] = "gone"]
    /\ ev' = Quiet
    /\ UNCHANGED <<guards, job, probe, clones>>

\* the owner of a borrowed descriptor closes it, whatever the handle is doing
CloseFd(h) ==
    /\ ~Owning(h)
    /\ fdOpen[h]
    /\ fdOpen' = [fdOpen EXCEPT ![h] = FALSE]
    /\ osLock' = [osLock EXCEPT ![h] = 0]
    /\ ev' = Quiet
    /\ UNCHANGED <<hstate, guards, job, closes, probe, clones>>

\* the process holding guards on h is killed: no destructor runs, the OS closes
\* the descriptor
Kill(h) ==
    /\ Accessible(h)
    /\ Idle(h)
    /\ guards[h] # <<>>
    /\ fdOpen' = [fdOpen EXCEPT ![h] = FALSE]
    /\ osLock' = [osLock EXCEPT ![h] = 0]
    /\ guards' = [guards EXCEPT ![h] = <<>>]
    /\ hstate' = [hstate EXCEPT ![h] = "gone"]
    /\ clones' = [clones EXCEPT ![h] = 0]
    /\ ev' = Quiet
    /\ UNCHANGED <<job, closes, probe>>

\* the calls that hand a closure to spawn_blocking
Calls ==
    \/ \E h \in Handles : LockShared(h)
    \/ \E h \in Handles : LockExclusive(h)
    \/ \E h \in Handles : UnlockLock(h)

\* the other steps of a program that calls no unsafe fn of the crate, of the
\* worker and of the runtime
Steps ==
    \/ \E h \in Handles : TryLockShared(h)
    \/ \E h \in Handles : TryLockExclusive(h)
    \/ \E h \in Handles : UnlockLockRef(h)
    \/ \E h \in Handles : DropGuard(h)
    \/ \E h \in Handles : CloneLock(h)
    \/ \E h \in Handles : DropClone(h)
    \/ \E h \in Handles, k \in JobSlots : WorkerLock(h, k)
    \/ \E h \in Handles, k \in JobSlots : DropOutput(h, k)
    \/ \E h \in Handles, k \in JobSlots : LockResolve(h, k)
    \/ \E h \in Handles, k \in JobSlots : LockAbandon(h, k)
    \/ \E h \in Handles, k \in JobSlots : WorkerUnlock(h, k)
    \/ \E h \in Handles, k \in JobSlots : UnlockResolve(h, k)
    \/ \E h \in Handles, k \in JobSlots : UnlockAbandon(h, k)
    \/ \E h \in Handles, k \in JobSlots : DispatchFail(h, k)
    \/ \E h \in Handles, k \in JobSlots : LockPanic(h, k)
    \/ \E h \in Handles, k \in JobSlots : UnlockPanic(h, k)
    \/ \E h \in Handles : DropHandle(h)
    \/ \E h \in Handles : CloseFd(h)
    \/ \E h \in Handles : Kill(h)

\* the steps of a program that calls no unsafe fn of the crate
SafeNext == Calls \/ Steps

Next ==
    \/ SafeNext
    \/ \E h \in Handles : UnlockRef(h)

Spec == Init /\ [][Next]_vars

\* SafeSpec: the programs written in safe Rust
SafeSpec == Init /\ [][SafeNext]_vars

\* the steps of a program that awaits its calls one after the other: a call is
\* made when fewer than MaxSerial are in flight
SerialNext ==
    \/ InFlight < MaxSerial /\ Calls
    \/ Steps
    \/ \E h \in Handles : UnlockRef(h)

\* the lock calls of h in flight that ask for one kind of lock and have, or
\* have not, waited in flock. Canon rearranges the slots of a handle, so a
\* task is named by what it asks for and where it stands, never by its slot.
Tasks(h, flag, w) ==
    {k \in JobSlots :
        job[h][k].op = "lock" /\ job[h][k].flag = flag /\ job[h][k].waited = w}

\* FairSpec: such a program under the scheduling of the runtime. The worker
\* thread runs the closure it was handed and drops an output nobody awaits,
\* and flock returns once the lock can be granted; a future that is awaited is
\* polled after its task is done.
FairSpec ==
    /\ Init /\ [][SerialNext]_vars
    /\ \A h \in Handles, flag \in {LOCK_SH, LOCK_EX}, w \in BOOLEAN :
          /\ WF_vars(\E k \in Tasks(h, flag, w) : WorkerLock(h, k))
          /\ WF_vars(\E k \in Tasks(h, flag, w) : DropOutput(h, k))
          /\ WF_vars(\E k \in Tasks(h, flag, w) : LockResolve(h, k))

\* ------------------------------------------- the non-blocking primitives
\* SpecTry: one call of a non-blocking primitive of either backend, for every
\* answer of the OS call: whether it reported success, and the error code the
\* OS holds (left over from an earlier call when this one succeeded).
InitTry ==
    /\ fdOpen = [h \in Handles |-> TRUE]
    /\ osLock = [h \in Handles |-> 0]
    /\ hstate = [h \in Handles |-> "caller"]
    /\ guards = [h \in Handles |-> <<>>]
    /\ job = [h \in Handles |-> NoJobs]
    /\ closes = [h \in Handles |-> 0]
    /\ ev = Quiet
    /\ probe \in [phase : {"in"}, backend : {"unix", "windows"},
                   mode : {LOCK_SH, LOCK_EX}, h : Handles,
                   ok : BOOLEAN, errno : 0..MaxErrno]
    /\ clones = [h \in Handles |-> 0]

\* the OS answers every call the way probe says
UnixAnswers ==
    [h \in Handles, op \in FlockOps |->
        [ret |-> IF probe.ok THEN 0 ELSE -1, errno |-> probe.errno,
         post |-> osLock, blocked |-> FALSE]]

WindowsAnswers ==
    [h \in Handles, flags \in LockFileExFlags |->
        [ret |-> IF probe.ok THEN 1 ELSE 0, errno |-> probe.errno, post |-> osLock]]

ProbeUnix ==
    /\ probe.phase = "in"
    /\ probe.backend = "unix"
    /\ LET r == IF probe.mode = LOCK_SH THEN try_lock_shared(UnixAnswers, probe.h)
                ELSE try_lock_exclusive(UnixAnswers, probe.h)
       IN  probe' = [phase |-> "done", backend |-> probe.backend, mode |-> probe.mode,
                     h |-> probe.h, ok |-> probe.ok, errno |-> probe.errno,
                     tag |-> r.tag, err |-> r.err]
    /\ UNCHANGED <<fdOpen, osLock, hstate, guards, job, closes, ev, clones>>

ProbeWindows ==
    /\ probe.phase = "in"
    /\ probe.backend = "windows"
    /\ LET r == IF probe.mode = LOCK_SH
                THEN windows_try_lock_shared(WindowsAnswers, probe.h)
                ELSE windows_try_lock_exclusive(WindowsAnswers, probe.h)
       IN  probe' = [phase |-> "done", backend |-> probe.backend, mode |-> probe.mode,
                     h |-> probe.h, ok |-> probe.ok, errno |-> probe.errno,
                     tag |-> r.tag, err |-> r.err]
    /\ UNCHANGED <<fdOpen, osLock, hstate, guards, job, closes, ev, clones>>

NextTry == ProbeUnix \/ ProbeWindows

SpecTry == InitTry /\ [][NextTry]_vars

\* ================================================================ claims
IsTry(e) == e.op \in {"try_lock_shared", "try_lock_exclusive"}
IsUnlock(e) == e.op \in {"LockRef.unlock", "Lock.unlock"}
IsDrop(e) == e.op \in {"LockRef.drop", "Lock.drop"}
\* no handle but a and b holds a lock
OthersFree(lock, a, b) == \A g \in Handles \ {a, b} : lock[g] = 0

\* C1: while a handle h1 holds an exclusive lock, a non-blocking attempt (shared
\* or exclusive) on another open handle h2 of the file returns would-block,
\* Ok(None): never a guard and never an error.
C1_ExclusiveBlocksTry ==
    \A h1, h2 \in Handles :
        (h1 # h2 /\ osLock[h1] = LOCK_EX /\ IsTry(ev) /\ ev.h = h2 /\ fdOpen[h2])
            => ev.tag = "None"

C1_Witness ==
    /\ ev.op = "try_lock_shared" /\ ev.h = 2 /\ ev.tag = "None" /\ fdOpen[2]
    /\ osLock[1] = LOCK_EX /\ guards[1] # <<>>

\* C2: shared locks coexist and exclude exclusive ones: while another handle
\* holds a shared lock (and none an exclusive one) try_lock_shared on an open
\* handle returns Some and both hold the shared lock; while another handle
\* holds a shared lock try_lock_exclusive returns would-block.
C2_SharedCompatible ==
    \A h1, h2 \in Handles :
        (h1 # h2 /\ osLock[h1] = LOCK_SH /\ ev.h = h2 /\ fdOpen[h2])
            => /\ ev.op = "try_lock_shared"
                    => /\ ev.tag = "Some"
                       /\ osLock[h2] = LOCK_SH
                       /\ guards[h2] # <<>>
               /\ ev.op = "try_lock_exclusive" => ev.tag = "None"

C2_Witness ==
    /\ ev.op = "try_lock_shared" /\ ev.h = 2 /\ ev.tag = "Some"
    /\ osLock[1] = LOCK_SH /\ osLock[2] = LOCK_SH
    /\ guards[1] # <<>> /\ guards[2] # <<>>

\* the call in slot k of h becomes y in this step
Becomes(h, k, y) == job' = Put(h, k, y)
\* this step is the unlock call of a Lock::unlock on h returning Ok on the worker
WorkerUnlocked(h) ==
    \E k \in JobSlots :
        /\ job[h][k].op = "unlock" /\ job[h][k].st = "queued"
        /\ ev'.op # "abort"
        /\ \/ Becomes(h, k, [job[h][k] EXCEPT !.st = "done", !.tag = "Ok", !.calls = @ + 1])
           \/ /\ job[h][k].fut = "abandoned" /\ Becomes(h, k, NoJob)
              /\ ev'.op = "Lock.unlock.detached" /\ ev'.tag = "Ok"
\* this step is a successful explicit unlock of a guard of h releasing the
\* lock: LockRef::unlock returning Ok, the unlock call of Lock::unlock
\* returning Ok on the worker, or Lock::unlock returning Ok for a File (which
\* nothing else can have used since the worker's call)
Unlocked(h) ==
    \/ ev'.op = "LockRef.unlock" /\ ev'.h = h /\ ev'.tag = "Ok"
    \/ WorkerUnlocked(h)
    \/ ev'.op = "Lock.unlock" /\ ev'.h = h /\ ev'.tag = "Ok" /\ Owning(h)

\* C3: release hands the lock over: in the state a successful explicit unlock
\* of a guard of h1 leaves, with no third handle holding a lock, the next
\* try_lock_exclusive on any other open handle h2 returns Some and takes the
\* exclusive lock, and a try_lock_exclusive on h1 following that returns
\* would-block.
C3_ReleaseHandsOver ==
    [][\A h1, h2 \in Handles :
          (h1 # h2 /\ Unlocked(h1) /\ fdOpen'[h2] /\ OthersFree(osLock', h1, h2))
              => LET r2 == try_lock_exclusive(Sys(fdOpen', osLock'), h2)
                     r1 == try_lock_exclusive(Sys(fdOpen', r2.post), h1)
                 IN  /\ r2.tag = "Some"
                     /\ r2.post[h2] = LOCK_EX
                     /\ fdOpen'[h1] => r1.tag = "None"]_vars

C3_Witness ==
    /\ ev.op = "LockRef.unlock" /\ ev.h = 1 /\ ev.tag = "Ok"
    /\ fdOpen[1] /\ fdOpen[2] /\ Accessible(2) /\ guards[2] = <<>>

\* C4: in the state the drop of a guard on which unlock() was not called
\* leaves, the unlock primitive was issued once for it, nothing was returned
\* (an error of that call is discarded), and the lock is released as by a
\* successful explicit unlock: the handle holds no lock, and an exclusive
\* attempt on another open handle succeeds when no third handle holds a lock.
C4_DropReleases ==
    \A h \in Handles :
        (IsDrop(ev) /\ ev.h = h)
            => /\ ev.calls = 1 /\ ev.tag = "" /\ ev.err = 0
               /\ osLock[h] = 0
               /\ \A h2 \in Handles \ {h} :
                     (fdOpen[h2] /\ OthersFree(osLock, h, h2))
                         => try_lock_exclusive(Sys(fdOpen, osLock), h2).tag = "Some"

C4_Witness ==
    /\ IsDrop(ev) /\ ev.h = 1 /\ ev.calls = 1 /\ osLock[1] = 0
    /\ fdOpen[2] /\ Accessible(2)

\* C5: an explicit unlock() issues exactly one call of the unlock primitive for
\* its guard, whether the call succeeds or fails.
C5_UnlockCallsOnce == IsUnlock(ev) => ev.calls = 1

\* C6: when the OS call of an explicit unlock() fails, unlock() returns that OS
\* error and does nothing more: no second unlock attempt, and the handle is
\* not closed.
C6_FailedUnlockStopsThere ==
    \A h \in Handles :
        (IsUnlock(ev) /\ ev.h = h /\ ev.tag = "Err")
            => (ev.err = EBADF /\ ev.calls <= 1 /\ closes[h] = 0)

\* C7: on the asynchronous unlock path of the owning guard the unlock primitive
\* is invoked at most once for the guard, also when the future of Lock::unlock
\* is abandoned.
C7_NoDoubleUnlock ==
    ev.op \in {"Lock.unlock", "Lock.unlock.abandon", "Lock.unlock.detached"}
        => ev.calls <= 1

\* C8: lock then unlock is a round trip on the handle: a successful
\* Lock::unlock gives the handle back to the caller, not closed by the library,
\* with no guard left on a File, and its unlock call left the handle holding no
\* lock; a successful LockRef::unlock ends the borrow and leaves the handle
\* reachable, open and holding no lock. (A File holds no lock when
\* Lock::unlock returns; a RawFd may by then hold the lock of another call
\* made with it.)
C8_UnlockRoundTrip ==
    [][\A h \in Handles :
          /\ Unlocked(h) => osLock'[h] = 0
          /\ (IsUnlock(ev') /\ ev'.h = h /\ ev'.tag = "Ok")
                => /\ closes'[h] = 0
                   /\ Owning(h) => fdOpen'[h]
                   /\ Accessible(h)'
                   /\ ev'.op = "Lock.unlock"
                        => (hstate'[h] = "caller" /\ (Owning(h) => guards'[h] = <<>>))
                   /\ ev'.op = "LockRef.unlock" => fdOpen'[h]]_vars

C8_Witness ==
    /\ ev.op = "Lock.unlock" /\ ev.h = 1 /\ ev.tag = "Ok"
    /\ hstate[1] = "caller" /\ fdOpen[1] /\ osLock[1] = 0

\* the code with which a backend's OS reports that the lock would block
WouldBlockCode(backend) == IF backend = "unix" THEN EWOULDBLOCK ELSE ERROR_LOCK_VIOLATION

\* C9 (under SpecTry): on both backends a non-blocking primitive returns
\* Ok(Some) exactly when the OS call succeeded, Ok(None) exactly when it failed
\* with the backend's would-block code, and Err exactly for every other
\* failure, carrying the OS error code unchanged.
C9_TriState ==
    probe.phase = "done" =>
        /\ probe.tag \in {"Some", "None", "Err"}
        /\ probe.tag = "Some" <=> probe.ok
        /\ probe.tag = "None" <=> (~probe.ok /\ probe.errno = WouldBlockCode(probe.backend))
        /\ probe.tag = "Err" <=> (~probe.ok /\ probe.errno # WouldBlockCode(probe.backend))
        /\ probe.tag = "Err" => probe.err = probe.errno

C9_Witness ==
    /\ probe.phase = "done" /\ probe.backend = "windows" /\ probe.mode = LOCK_EX
    /\ ~probe.ok /\ probe.errno = ERROR_LOCK_VIOLATION /\ probe.tag = "None"

\* C10 (under FairSpec): an awaited lock_exclusive on h whose call waited for
\* another holder does not stay pending once the lock is free: from a state
\* where it waits and no other handle holds a lock its call returns with the
\* exclusive lock taken, unless before that the future is abandoned, the
\* descriptor is closed or another handle takes a lock; and once the call has
\* returned the future resolves to Ok with the guard, unless it is abandoned
\* or the process is aborted.
PendingExclusive(j) ==
    j.op = "lock" /\ j.flag = LOCK_EX /\ j.fut = "pending" /\ j.waited

\* the awaited lock_exclusive of h waits in the kernel
WaitingExclusive(h) ==
    \E k \in JobSlots : PendingExclusive(job[h][k]) /\ job[h][k].st = "blocked"

\* its call has returned
ReturnedExclusive(h) ==
    \E k \in JobSlots : PendingExclusive(job[h][k]) /\ job[h][k].st = "done"

GrantedExclusive(h) ==
    /\ \E k \in JobSlots :
          PendingExclusive(job[h][k]) /\ job[h][k].st = "done" /\ job[h][k].tag = "Ok"
    /\ osLock[h] = LOCK_EX

ResolvedExclusive(h) ==
    /\ ev.op = "lock_exclusive" /\ ev.h = h /\ ev.tag = "Ok" /\ ev.waited
    /\ OwnAt(h, LOCK_EX) # {}

\* the future of the lock call of h was dropped, or the process was aborted
GivenUp(h) == (ev.op = "lock.abandon" /\ ev.h = h) \/ ev.op = "abort"

C10_PendingLockResolves ==
    \A h \in Handles :
        /\ (WaitingExclusive(h) /\ fdOpen[h] /\ OthersFree(osLock, h, h))
              ~> \/ GrantedExclusive(h)
                 \/ GivenUp(h)
                 \/ ~fdOpen[h]
                 \/ ~OthersFree(osLock, h, h)
        /\ ReturnedExclusive(h) ~> (ResolvedExclusive(h) \/ GivenUp(h))

C10_Witness ==
    /\ ResolvedExclusive(2) /\ osLock[2] = LOCK_EX
    /\ hstate[1] = "gone" /\ ~fdOpen[1]

\* the operations that hand out a guard
IsLock(e) == e.op \in {"lock_shared", "lock_exclusive"}
Granted(e) == (IsLock(e) /\ e.tag = "Ok") \/ (IsTry(e) /\ e.tag = "Some")
\* the guards alive on h: the nest of guards on the handle and the clones
LiveGuards(g, c, h) == Len(g[h]) + c[h]

\* C11: at any time at most one live guard can issue the unlock call for a
\* handle: no handle has two live guards (a guard and a clone of it, or a
\* guard and a second one taken through it) whose drop or unlock() would each
\* unlock it.
C11_OneGuardPerHandle ==
    \A h \in Handles : LiveGuards(guards, clones, h) <= 1

\* C12: a guard comes into existence only by a successful lock acquisition:
\* every step that adds a guard on a handle is a lock_shared, lock_exclusive,
\* try_lock_shared or try_lock_exclusive on that handle returning the guard
\* after its OS lock call succeeded (a non-blocking call leaves the lock held
\* in the state it returns in).
C12_GuardOnlyFromLock ==
    [][\A h \in Handles :
          LiveGuards(guards', clones', h) > LiveGuards(guards, clones, h)
              => /\ Granted(ev') /\ ev'.h = h
                 /\ IsTry(ev') => osLock'[h] # 0]_vars

\* the modes in which the live guards of h were acquired
GuardModes(h) == {guards[h][i].mode : i \in 1..Len(guards[h])}

\* C13: mutual exclusion of live guards: when a live guard on an open handle
\* was acquired in exclusive mode, no other open handle of the file has a live
\* guard; live guards on distinct handles coexist only when all were acquired
\* in shared mode.
C13_GuardsExclude ==
    \A h1, h2 \in Handles :
        (h1 # h2 /\ fdOpen[h1] /\ fdOpen[h2] /\ LOCK_EX \in GuardModes(h1))
            => guards[h2] = <<>>

\* C14: a non-blocking attempt that returns would-block changes nothing: the
\* handle stays with the caller and open, no guard is created, no unlock call
\* is issued, and every handle (the calling one included) holds the lock it
\* held before the call.
C14_WouldBlockChangesNothing ==
    [][\A h \in Handles :
          (IsTry(ev') /\ ev'.h = h /\ ev'.tag = "None")
              => /\ osLock' = osLock
                 /\ guards' = guards /\ clones' = clones
                 /\ hstate' = hstate /\ fdOpen' = fdOpen /\ closes' = closes
                 /\ ev'.calls = 0]_vars

\* the name under which the lock call of a job returns
LockName(flag) == IF flag = LOCK_SH THEN "lock_shared" ELSE "lock_exclusive"
\* the calls of h in flight after this step
After(h) == {job'[h][k] : k \in JobSlots}

\* C15: the async bridge hands on the result of the blocking call unchanged:
\* the worker's result is Ok exactly when the flock call succeeded and carries
\* the errno otherwise, and lock_shared / lock_exclusive return the result of
\* a call of theirs that ran: Ok with a new guard of the mode asked for, owning
\* the handle passed in, or Err with the same error code and no guard.
C15_BridgePropagates ==
    [][\A h \in Handles :
          /\ \A k \in JobSlots, y \in After(h) :
                (job[h][k].op = "lock" /\ job[h][k].st \in {"queued", "blocked"}
                    /\ y.op = "lock" /\ y.st = "done" /\ Becomes(h, k, y))
                  => LET os == flock(Entered(h, k), osLock, h, job[h][k].flag)
                     IN  /\ y.tag = (IF os.ret = 0 THEN "Ok" ELSE "Err")
                         /\ y.err = os.errno
          /\ (IsLock(ev') /\ ev'.h = h /\ ev'.tag \in {"Ok", "Err"})
                => \E k \in JobSlots :
                      /\ job[h][k].op = "lock" /\ job[h][k].st = "done"
                      /\ Becomes(h, k, NoJob)
                      /\ ev'.op = LockName(job[h][k].flag)
                      /\ ev'.tag = job[h][k].tag
                      /\ ev'.err = job[h][k].err
                      /\ ev'.tag = "Ok"
                           => /\ guards'[h]
                                   = Append(guards[h], Guard("own", job[h][k].flag))
                              /\ Owning(h) => hstate'[h] = "lock"
                      /\ ev'.tag = "Err"
                           => /\ ev'.err # 0 /\ kind(ev'.err) # "WouldBlock"
                              /\ guards'[h] = guards[h]
                              /\ Owning(h) => hstate'[h] = "gone"]_vars

C15_Witness ==
    /\ ev.op = "lock_shared" /\ ev.h = 2 /\ ev.tag = "Err" /\ ev.err = EBADF
    /\ ~fdOpen[2] /\ guards[2] = <<>>

\* C16: a failure of the dispatch is fatal: a lock_shared, lock_exclusive or
\* Lock::unlock whose task was cancelled ends in a panic when it is polled (or
\* is abandoned, or the process is aborted), never in an Ok or Err value, and
\* makes no guard; an Ok or Err value is returned only for a task that ran.
C16_DispatchFailureIsFatal ==
    [][\A h \in Handles :
          /\ \A k \in JobSlots :
                (job[h][k].st = "failed" /\ Becomes(h, k, NoJob))
                  => /\ Owning(h) => guards'[h] = <<>> /\ hstate'[h] = "gone"
                     /\ \/ /\ ev'.h = h /\ ev'.tag = "Panic"
                           /\ ev'.op = (IF job[h][k].op = "lock"
                                        THEN LockName(job[h][k].flag) ELSE "Lock.unlock")
                           /\ guards'[h] = (IF job[h][k].op = "lock" THEN guards[h]
                                            ELSE EndGuards(h, job[h][k]))
                        \/ /\ ev'.h = h
                           /\ ev'.op \in {"lock.abandon", "Lock.unlock.abandon"}
                           /\ Len(guards'[h]) <= Len(guards[h])
                        \/ ev'.op = "abort"
          /\ \A k \in JobSlots, y \in After(h) :
                (job[h][k].st = "failed" /\ Becomes(h, k, y)) => y \in {NoJob, job[h][k]}
          /\ (ev'.h = h /\ (IsLock(ev') \/ ev'.op = "Lock.unlock")
                /\ ev'.tag \in {"Ok", "Err"})
                => \E k \in JobSlots :
                      /\ job[h][k].st = "done" /\ Becomes(h, k, NoJob)
                      /\ IsLock(ev') <=> job[h][k].op = "lock"]_vars

C16_Witness ==
    /\ IsLock(ev) /\ ev.tag = "Panic" /\ ev.h = 1
    /\ guards[1] = <<>> /\ hstate[1] = "gone"

\* C17: abandoning the future of lock_shared / lock_exclusive delivers no
\* cancellation: the step that drops the future of a call not yet returned
\* leaves the call dispatched as it was and the OS state untouched; no guard
\* is made for the abandoned call, which is never awaited again; and a call
\* waiting in the kernel ends only by flock returning, with the lock taken when
\* the descriptor is still open.
C17_AbandonDoesNotCancel ==
    [][\A h \in Handles, k \in JobSlots :
          /\ (job[h][k].op = "lock" /\ job[h][k].fut = "pending"
                /\ job[h][k].st \in {"queued", "blocked"}
                /\ ev'.op = "lock.abandon" /\ ev'.h = h
                /\ \E y \in After(h) \cup {NoJob} :
                      y # job[h][k] /\ Becomes(h, k, y))
                => /\ Becomes(h, k, [job[h][k] EXCEPT !.fut = "abandoned"])
                   /\ osLock' = osLock /\ fdOpen' = fdOpen /\ closes' = closes
          /\ (job[h][k].op = "lock" /\ job[h][k].fut = "abandoned")
                => /\ Owning(h) => guards'[h] = <<>> /\ hstate'[h] = "gone"
                   /\ \A y \in After(h) \cup {NoJob} :
                         (y # job[h][k] /\ Becomes(h, k, y) /\ ev'.op # "abort")
                           => /\ ~IsLock(ev')
                              /\ guards' = guards
                              /\ y = NoJob \/ y.fut = "abandoned"
                              /\ job[h][k].st = "blocked"
                                   => /\ y = [job[h][k] EXCEPT !.st = "done", !.tag = "Ok"]
                                      /\ fdOpen[h] => osLock'[h] = job[h][k].flag]_vars

C17_Witness ==
    /\ \E k \in JobSlots :
          /\ job[2][k].op = "lock" /\ job[2][k].fut = "abandoned" /\ job[2][k].st = "done"
          /\ job[2][k].tag = "Ok" /\ job[2][k].waited
    /\ osLock[2] = LOCK_EX /\ guards[2] = <<>>

\* C18: while a guard is live (not being unlocked, descriptor open) its handle
\* holds the lock acquired when the guard was created: the lock of the handle
\* is the mode of its outermost live guard, whatever was done with second
\* guards taken through it or with clones.
C18_LiveGuardHoldsLock ==
    \A h \in Handles :
        (guards[h] # <<>> /\ fdOpen[h] /\ Idle(h))
            => osLock[h] = guards[h][1].mode

\* an abandoned lock call of h is in flight
AbandonedLock(h) ==
    \E k \in JobSlots : job[h][k].op = "lock" /\ job[h][k].fut = "abandoned"

\* the abandoned call of h has ended leaving no lock behind, so that an attempt
\* on any other open handle succeeds when no third handle holds a lock
Released(h) ==
    /\ Idle(h)
    /\ osLock[h] = 0
    /\ \A h2 \in Handles \ {h} :
          (fdOpen[h2] /\ OthersFree(osLock, h, h2))
              => try_lock_exclusive(Sys(fdOpen, osLock), h2).tag = "Some"

\* C19 as claimed, for every handle type: when the abandoned lock call of a
\* handle without a live guard and without another call ends, the handle
\* holds no lock and another handle's attempt succeeds.
C19_AbandonedLockReleased ==
    [][\A h \in Handles :
          (AbandonedLock(h) /\ InFlight = 1 /\ Idle(h)'
                /\ guards[h] = <<>> /\ clones[h] = 0)
              => (osLock'[h] = 0
                  /\ \A h2 \in Handles \ {h} :
                        (fdOpen'[h2] /\ OthersFree(osLock', h, h2))
                            => try_lock_exclusive(Sys(fdOpen', osLock'), h2).tag = "Some")]_vars

\* C19 amended (under FairSpec): an abandoned lock call on a handle that owns
\* its descriptor leaks no lock: from a state where no other handle holds a
\* lock the call ends with the descriptor closed and no lock held, so that
\* another handle's attempt succeeds, unless another handle takes a lock first.
C19_OwningAbandonedLockReleased ==
    \A h \in Handles :
        (Owning(h) /\ AbandonedLock(h) /\ OthersFree(osLock, h, h))
            ~> ((Released(h) /\ ~fdOpen[h]) \/ ~OthersFree(osLock, h, h))

C19_Witness ==
    /\ Owning(1) /\ job[1][1].op = "lock" /\ job[1][1].fut = "abandoned"
    /\ job[1][1].st = "blocked" /\ fdOpen[1] /\ OthersFree(osLock, 1, 1)
    /\ fdOpen[2] /\ Accessible(2)

\* C20: the handle of an owning guard has one owner and is closed at most
\* once on every way Lock::unlock can end, and no unlock call is left to run on
\* it after it was closed.
C20_ClosedAtMostOnce ==
    \A h \in Handles :
        Owning(h) =>
            /\ closes[h] <= 1
            /\ \A k \in JobSlots :
                  ~(job[h][k].op = "unlock" /\ job[h][k].st = "queued" /\ ~fdOpen[h])
====
